---- MODULE Spec2Model ----
(***************************************************************************)
(* State-machine model of server.js: a file-backed store of profiles       *)
(* (byUsername, byShortId), photo uploads through multer, and the four     *)
(* HTTP handlers (GET profile, POST update, POST delete-photo, GET /u/id). *)
(*                                                                         *)
(* JavaScript strings are sequences of one-character strings, so that      *)
(* trim, toLowerCase, toString(36) and slice are computed, not assumed.    *)
(* JavaScript values that may be undefined carry a tag t.                  *)
(***************************************************************************)
EXTENDS Integers, Sequences, FiniteSets, TLC

\* pending: the requests of concurrent clients, in the order of their arrival
VARIABLES dbFile, disk, resp, pending

vars == <<dbFile, disk, resp, pending>>

(***************************************************************************)
(* Bounds of the model.                                                    *)
(***************************************************************************)
\* most photo entries held by all profiles together
MaxPhotos == 3
\* most file parts in one upload request
MaxBatch == 2

(***************************************************************************)
(* JavaScript values.                                                      *)
(***************************************************************************)
Undefined == [t |-> "undefined"]
Null == [t |-> "null"]
StrV(s) == [t |-> "string", v |-> s]
\* a value inherited from Object.prototype (a function or an object)
Builtin(k) == [t |-> "builtin", key |-> k]

\* JavaScript truthiness: undefined, null and "" are falsy; objects and
\* functions are truthy.
Truthy(x) ==
  CASE x.t = "undefined" -> FALSE
    [] x.t = "null" -> FALSE
    [] x.t = "string" -> x.v # <<>>
    [] OTHER -> TRUE

\* String(x || '')
StringOrEmpty(x) == IF Truthy(x) /\ x.t = "string" THEN x.v ELSE <<>>

(***************************************************************************)
(* String.prototype.trim, toLowerCase, slice.                              *)
(***************************************************************************)
RECURSIVE TrimStart(_)
TrimStart(s) ==
  IF s # <<>> /\ Head(s) = " " THEN TrimStart(Tail(s)) ELSE s

RECURSIVE TrimEnd(_)
TrimEnd(s) ==
  IF s # <<>> /\ s[Len(s)] = " " THEN TrimEnd(SubSeq(s, 1, Len(s) - 1)) ELSE s

NoTrim(s) == s

Trim(s) == TrimEnd(TrimStart(s))

LowerChar(c) ==
  CASE c = "A" -> "a"
    [] c = "C" -> "c"
    [] OTHER -> c

ToLowerCase(s) == [i \in 1..Len(s) |-> LowerChar(s[i])]

\* s.slice(from, to) with 0-based, end-exclusive indices 0 <= from <= to
Slice(s, from, to) ==
  IF from >= Len(s) THEN <<>>
  ELSE SubSeq(s, from + 1, IF to < Len(s) THEN to ELSE Len(s))

(***************************************************************************)
(* Plain objects: own properties are a function; a lookup that misses the  *)
(* own properties continues in Object.prototype; assigning __proto__       *)
(* replaces the prototype and creates no own property.                     *)
(***************************************************************************)
sConstructor == <<"c", "o", "n", "s", "t", "r", "u", "c", "t", "o", "r">>
sProto == <<"_", "_", "p", "r", "o", "t", "o", "_", "_">>
sAnonymous == <<"a", "n", "o", "n", "y", "m", "o", "u", "s">>

ObjectPrototypeKeys == {sConstructor, sProto}

\* obj[k]
GetProp(obj, k) ==
  IF k \in DOMAIN obj THEN obj[k]
  ELSE IF k \in ObjectPrototypeKeys THEN Builtin(k)
  ELSE Undefined

\* obj[k] = v
SetPropAlone(obj, k, v) == [x \in {k} |-> v]

SetProp(obj, k, v) ==
  IF k = sProto THEN obj
  ELSE [x \in (DOMAIN obj) \cup {k} |-> IF x = k THEN v ELSE obj[x]]

EmptyObject == [x \in {} |-> Undefined]

EmptyDb == [byUsername |-> EmptyObject, byShortId |-> EmptyObject]

(***************************************************************************)
(* JSON.stringify / JSON.parse of the store: the own properties, as        *)
(* members <<key, value>>; properties holding undefined are not written.   *)
(***************************************************************************)
StringifyObject(obj) ==
  {<<k, obj[k]>> : k \in {x \in DOMAIN obj : obj[x].t # "undefined"}}

ParseObject(members) ==
  [k \in {m[1] : m \in members} |->
     (CHOOSE m \in members : m[1] = k)[2]]

JsonStringify(db) ==
  [byUsername |-> StringifyObject(db.byUsername),
   byShortId |-> StringifyObject(db.byShortId)]

JsonParse(text) ==
  [byUsername |-> ParseObject(text.byUsername),
   byShortId |-> ParseObject(text.byShortId)]

\* the backing file: missing, unparsable, or the text written by saveDb
MissingFile == [state |-> "missing"]
CorruptFile == [state |-> "corrupt"]

loadDb(file) ==
  IF file.state = "json" THEN JsonParse(file.text) ELSE EmptyDb

saveDb(db) == [state |-> "json", text |-> JsonStringify(db)]

(***************************************************************************)
(* generateShortId: Math.random().toString(36).slice(2, 8).  A random      *)
(* number in [0, 1) is given by the base-36 digits after the point, none   *)
(* for 0.                                                                  *)
(***************************************************************************)
ToString36(digits) ==
  IF digits = <<>> THEN <<"0">> ELSE <<"0", ".">> \o digits

generateShortId(random) == Slice(ToString36(random), 2, 8)

\* outcomes of Math.random() that the short-id loop may draw
Randoms ==
  { <<>>,
    <<"i">>,
    <<"k", "3", "x", "9", "q", "0", "a">> }

(***************************************************************************)
(* multer: disk storage and file filter.                                   *)
(***************************************************************************)
\* upload.array('photos', 20)
MaxCount == 20

mImagePng == <<"i", "m", "a", "g", "e", "/", "p", "n", "g">>
mTextPlain == <<"t", "e", "x", "t", "/", "p", "l", "a", "i", "n">>
mImagePrefix == <<"i", "m", "a", "g", "e", "/">>

StartsWith(s, prefix) ==
  Len(s) >= Len(prefix) /\ SubSeq(s, 1, Len(prefix)) = prefix

\* path.extname: from the last dot, unless the name has none or starts with it
ExtName(name) ==
  LET dots == {i \in 2..Len(name) : name[i] = "."}
  IN IF dots = {} THEN <<>>
     ELSE LET last == CHOOSE i \in dots : \A j \in dots : j <= i
          IN SubSeq(name, last, Len(name))

fileFilterAcceptsAll(file) == Truthy(file.mimetype)

\* fileFilter
fileFilter(file) ==
  Truthy(file.mimetype) /\ StartsWith(file.mimetype.v, mImagePrefix)

\* storage.destination: the directory under PHOTO_DIR
destination(usernameParam) ==
  LET username == ToLowerCase(Trim(StringOrEmpty(usernameParam)))
  IN IF username # <<>> THEN username ELSE sAnonymous

\* storage.filename: Date.now() + '-' + Math.round(Math.random() * 1e9) + ext
filename(file) ==
  LET e == ExtName(file.originalname)
  IN [base |-> <<file.now, file.random>>,
      ext |-> IF e # <<>> THEN e ELSE <<".", "j", "p", "g">>]

\* file.path: a path under ROOT_DIR, by its segments
StoredPath(usernameParam, file) ==
  [root |-> "ROOT_DIR",
   segs |-> <<"uploads", "photos", destination(usernameParam), filename(file)>>]

\* index of the first part that ends the upload with an error, 0 if none:
\* a part the filter rejects, or a part beyond the maxCount of the field
FirstRejected(parts) ==
  LET bad == {i \in 1..Len(parts) : i > MaxCount \/ ~fileFilter(parts[i])}
  IN IF bad = {} THEN 0 ELSE CHOOSE i \in bad : \A j \in bad : i <= j

\* req.files after a complete upload
UploadedFiles(usernameParam, parts) ==
  [i \in 1..Len(parts) |-> [path |-> StoredPath(usernameParam, parts[i])]]

\* '/' + path.relative(ROOT_DIR, file.path).split(path.sep).join('/')
UrlPath(filePath) == [abs |-> TRUE, segs |-> filePath.segs]

\* path.join(ROOT_DIR, photoUrl without its leading slash)
DiskPathOfUrl(url) == [root |-> "ROOT_DIR", segs |-> url.segs]

PathV(u) == [t |-> "path", v |-> u]
EmptyUrl == [abs |-> FALSE, segs |-> <<>>]

\* truthiness of a request value that is undefined or a path-like string
TruthyUrl(x) == x.t = "path" /\ x.v # EmptyUrl

(***************************************************************************)
(* Helpers on values of the store.                                         *)
(***************************************************************************)
\* v.f for a value v that may be a builtin or an object without that field
Field(v, f) ==
  IF v.t = "object" /\ f \in DOMAIN v THEN v[f] ELSE Undefined

ArrV(a) == [t |-> "array", v |-> a]

IndexOfOrLast(a, x) ==
  LET hits == {i \in 1..Len(a) : a[i] = x}
  IN IF hits = {} THEN Len(a) - 1
     ELSE (CHOOSE i \in hits : \A j \in hits : i <= j) - 1

\* Array.prototype.indexOf, 0-based, -1 when absent
IndexOf(a, x) ==
  LET hits == {i \in 1..Len(a) : a[i] = x}
  IN IF hits = {} THEN -1
     ELSE (CHOOSE i \in hits : \A j \in hits : i <= j) - 1

SpliceToEnd(a, index) == SubSeq(a, 1, index)

\* a.splice(index, 1) for a 0-based index of a
Splice1(a, index) ==
  SubSeq(a, 1, index) \o SubSeq(a, index + 2, Len(a))

\* String(x) of a value inherited from Object.prototype
BuiltinToString(k) ==
  IF k = sProto
  THEN <<"[", "o", "b", "j", "e", "c", "t", " ", "O", "b", "j", "e", "c", "t", "]">>
  ELSE <<"f", "u", "n", "c", "t", "i", "o", "n", " ", "O", "b", "j", "e", "c", "t",
         "(", ")", " ", "{", " ", "[", "n", "a", "t", "i", "v", "e", " ", "c", "o",
         "d", "e", "]", " ", "}">>

\* encodeURIComponent of one character of the model's alphabet
EncodeChar(c) ==
  CASE c = " " -> <<"%", "2", "0">>
    [] c = "[" -> <<"%", "5", "B">>
    [] c = "]" -> <<"%", "5", "D">>
    [] c = "{" -> <<"%", "7", "B">>
    [] c = "}" -> <<"%", "7", "D">>
    [] OTHER -> <<c>>

RECURSIVE EncodeURIComponent(_)
EncodeURIComponent(s) ==
  IF s = <<>> THEN <<>> ELSE EncodeChar(Head(s)) \o EncodeURIComponent(Tail(s))

\* number of photo entries in all stored profiles
TotalPhotos(db) ==
  LET RECURSIVE Sum(_)
      Sum(keys) ==
        IF keys = {} THEN 0
        ELSE LET k == CHOOSE x \in keys : TRUE
             IN Len(db.byUsername[k].photos.v) + Sum(keys \ {k})
  IN Sum(DOMAIN db.byUsername)

\* the event loop is blocked by a handler that never returns
Blocked == resp.op = "update" /\ resp.status = 0

(***************************************************************************)
(* app.get('/api/user/:username')                                          *)
(***************************************************************************)
GetUser(usernameParam) ==
  LET username == ToLowerCase(Trim(StringOrEmpty(usernameParam)))
      db == loadDb(dbFile)
      user == GetProp(db.byUsername, username)
      blessing == Field(user, "blessing")
      photos == Field(user, "photos")
      shortId == Field(user, "shortId")
  IN /\ ~Blocked
     /\ resp' =
          IF ~Truthy(user)
          THEN [op |-> "getUser", req |-> [username |-> usernameParam],
                status |-> 404, body |-> [error |-> "User not found"],
                saved |-> FALSE, unlinked |-> {}]
          ELSE [op |-> "getUser", req |-> [username |-> usernameParam],
                status |-> 200,
                body |-> [username |-> username,
                          blessing |-> IF Truthy(blessing) THEN blessing.v ELSE <<>>,
                          photos |-> IF Truthy(photos) THEN photos.v ELSE <<>>,
                          shortId |-> IF Truthy(shortId) THEN shortId ELSE Null],
                saved |-> FALSE, unlinked |-> {}]
     /\ UNCHANGED <<dbFile, disk>>

(***************************************************************************)
(* app.get('/u/:shortId')                                                  *)
(***************************************************************************)
Resolve(shortIdParam) ==
  LET shortId == Trim(StringOrEmpty(shortIdParam))
      db == loadDb(dbFile)
      username == GetProp(db.byShortId, shortId)
      text == IF username.t = "string" THEN username.v
              ELSE BuiltinToString(username.key)
  IN /\ ~Blocked
     /\ resp' =
          IF ~Truthy(username)
          THEN [op |-> "resolve", req |-> [shortId |-> shortIdParam],
                status |-> 404, body |-> [text |-> "Invalid link"],
                saved |-> FALSE, unlinked |-> {}]
          ELSE [op |-> "resolve", req |-> [shortId |-> shortIdParam],
                status |-> 302,
                body |-> [location |-> "/tree.html?user=",
                          user |-> EncodeURIComponent(text)],
                saved |-> FALSE, unlinked |-> {}]
     /\ UNCHANGED <<dbFile, disk>>

(***************************************************************************)
(* app.post('/api/config/:username', upload.array('photos', 20), ...)      *)
(***************************************************************************)
\* the upload ends with an error: the handler is skipped and the error
\* handler answers; the parts written before the error are removed again by
\* the upload layer, or stay on disk
UploadRejected(usernameParam, blessingInput, parts) ==
  LET first == FirstRejected(parts)
      stored == {StoredPath(usernameParam, parts[i]) : i \in 1..(first - 1)}
  IN /\ first # 0
     /\ \/ disk' = disk \cup stored
        \/ disk' = disk \ stored
     /\ resp' = [op |-> "update",
                 req |-> [username |-> usernameParam, blessing |-> blessingInput,
                          parts |-> parts],
                 status |-> 400,
                 body |-> [error |-> "Only image uploads are allowed"],
                 saved |-> FALSE, unlinked |-> {}]
     /\ UNCHANGED dbFile

\* the profile a POST update stores, given the loaded store, and its short id
ConfigShortId(existing, random) ==
  IF Truthy(Field(existing, "shortId"))
  THEN Field(existing, "shortId").v
  ELSE generateShortId(random)

ConfigPhotos(existing, files) ==
  (IF Field(existing, "photos").t = "array" THEN Field(existing, "photos").v ELSE <<>>)
    \o [i \in 1..Len(files) |-> UrlPath(files[i].path)]

ConfigDb(db, username, blessing, photos, shortId) ==
  [byUsername |->
     SetProp(db.byUsername, username,
             [t |-> "object", username |-> StrV(username),
              blessing |-> StrV(blessing), photos |-> ArrV(photos),
              shortId |-> StrV(shortId)]),
   byShortId |-> SetProp(db.byShortId, shortId, StrV(username))]

LoopExitsAtOnce(db, existing, random) == TRUE

\* the do-while loop leaves with a token only if byShortId[token] is falsy
LoopExits(db, existing, random) ==
  \/ Truthy(Field(existing, "shortId"))
  \/ ~Truthy(GetProp(db.byShortId, generateShortId(random)))

\* the handler of POST update, run on the backing file it loads
ConfigHandler(file, usernameParam, blessingInput, parts, random, randoms) ==
  LET usernameRaw == Trim(StringOrEmpty(usernameParam))
      username == ToLowerCase(usernameRaw)
      files == UploadedFiles(usernameParam, parts)
      blessing == Trim(StringOrEmpty(blessingInput))
      db == loadDb(file)
      found == GetProp(db.byUsername, username)
      existing == IF Truthy(found) THEN found ELSE [t |-> "object"]
      photos == ConfigPhotos(existing, files)
      shortId == ConfigShortId(existing, random)
      request == [username |-> usernameParam, blessing |-> blessingInput,
                  parts |-> parts]
  IN IF username = <<>>
        THEN /\ resp' = [op |-> "update", req |-> request, status |-> 400,
                         body |-> [error |-> "Username is required"],
                         saved |-> FALSE, unlinked |-> {}]
             /\ UNCHANGED dbFile
        ELSE IF \A r \in randoms : ~LoopExits(db, existing, r)
        THEN \* every draw collides: the loop never ends
             /\ resp' = [op |-> "update", req |-> request, status |-> 0,
                         body |-> [error |-> "no response"],
                         saved |-> FALSE, unlinked |-> {}]
             /\ UNCHANGED dbFile
        ELSE /\ LoopExits(db, existing, random)
             /\ dbFile' = saveDb(ConfigDb(db, username, blessing, photos, shortId))
             /\ resp' = [op |-> "update", req |-> request, status |-> 200,
                         body |-> [ok |-> TRUE, username |-> username,
                                   blessing |-> blessing, photos |-> photos,
                                   shortId |-> shortId,
                                   shortUrl |-> <<"/", "u", "/">> \o shortId],
                         saved |-> TRUE, unlinked |-> {}]

\* an accepted upload, stored by multer, then the handler
Config(usernameParam, blessingInput, parts, random, randoms) ==
  LET files == UploadedFiles(usernameParam, parts)
  IN /\ FirstRejected(parts) = 0
     /\ disk' = disk \cup {files[i].path : i \in 1..Len(files)}
     /\ ConfigHandler(dbFile, usernameParam, blessingInput, parts, random, randoms)

\* one POST update request: the upload, then the handler or the error handler
ConfigRequest(request, randoms) ==
  /\ ~Blocked
  /\ \/ UploadRejected(request.username, request.blessing, request.parts)
     \/ \E random \in randoms :
          Config(request.username, request.blessing, request.parts, random, randoms)

(***************************************************************************)
(* app.post('/api/delete-photo/:username')                                 *)
(***************************************************************************)
DeleteResponse(usernameParam, photoUrl, status, body, saved, unlinked) ==
  [op |-> "deletePhoto",
   req |-> [username |-> usernameParam, photoUrl |-> photoUrl],
   status |-> status, body |-> body, saved |-> saved, unlinked |-> unlinked]

DeleteStatusUncaught(onDisk, unlinkOk) == IF onDisk /\ ~unlinkOk THEN 500 ELSE 200

\* the status after the try-catch around existsSync and unlinkSync: an error
\* of the deletion is caught and logged
DeleteStatus(onDisk, unlinkOk) == 200

\* the store after user.photos.splice(photoIndex, 1)
DeleteDb(db, username, photoIndex) ==
  [db EXCEPT !.byUsername[username].photos.v = Splice1(@, photoIndex)]

DeletePhoto(usernameParam, photoUrl, unlinkOk) ==
  LET username == ToLowerCase(Trim(StringOrEmpty(usernameParam)))
      db == loadDb(dbFile)
      user == GetProp(db.byUsername, username)
      photos == Field(user, "photos")
      photoIndex == IndexOf(photos.v, photoUrl.v)
      filePath == DiskPathOfUrl(photoUrl.v)
      Fail(status, error) ==
        /\ resp' = DeleteResponse(usernameParam, photoUrl, status,
                                  [ok |-> FALSE, error |-> error], FALSE, {})
        /\ UNCHANGED <<dbFile, disk>>
  IN /\ ~Blocked
     /\ IF username = <<>> THEN Fail(400, "Username is required")
        ELSE IF ~TruthyUrl(photoUrl) THEN Fail(400, "Photo URL is required")
        ELSE IF ~Truthy(user) THEN Fail(404, "User not found")
        ELSE IF photos.t # "array" THEN Fail(400, "No photos found")
        ELSE IF photoIndex = -1 THEN Fail(404, "Photo not found in user data")
        ELSE /\ dbFile' = saveDb(DeleteDb(db, username, photoIndex))
             /\ disk' = IF filePath \in disk /\ unlinkOk
                        THEN disk \ {filePath} ELSE disk
             /\ resp' = DeleteResponse(usernameParam, photoUrl,
                          DeleteStatus(filePath \in disk, unlinkOk),
                          [ok |-> TRUE, message |-> "Photo deleted successfully"],
                          TRUE, disk \ disk')

\* fs.unlinkSync succeeds or throws; it is reached only for a file on disk
UnlinkOutcomes(photoUrl) ==
  IF TruthyUrl(photoUrl) /\ DiskPathOfUrl(photoUrl.v) \in disk
  THEN BOOLEAN ELSE {TRUE}

(***************************************************************************)
(* The specification: the server starts with no backing file, or with one  *)
(* that does not parse, and with no uploads.                               *)
(***************************************************************************)
NoResponse ==
  [op |-> "none", req |-> [none |-> TRUE], status |-> 200,
   body |-> [none |-> TRUE], saved |-> FALSE, unlinked |-> {}]

Init ==
  /\ dbFile \in {MissingFile, CorruptFile}
  /\ disk = {}
  /\ resp = NoResponse
  /\ pending = <<>>

(***************************************************************************)
(* Requests of the specification Spec: every username, empty and one-part  *)
(* uploads, every outcome of Math.random().                                *)
(***************************************************************************)
pAlice == StrV(<<"A", " ">>)
pBlank == StrV(<<" ">>)

UsernameParams == {pAlice, StrV(sConstructor), StrV(sProto), pBlank}

ImagePart ==
  [mimetype |-> StrV(mImagePng), originalname |-> <<"p">>, now |-> 1, random |-> 7]
PngPart ==
  [mimetype |-> StrV(mImagePng), originalname |-> <<"p", ".", "p", "n", "g">>,
   now |-> 1, random |-> 7]
LaterPart ==
  [mimetype |-> StrV(mImagePng), originalname |-> <<"p">>, now |-> 2, random |-> 7]
TextPart ==
  [mimetype |-> StrV(mTextPlain), originalname |-> <<"p">>, now |-> 1, random |-> 7]

ConfigRequests ==
  [username : UsernameParams, blessing : {StrV(<<" ", "h", "i">>)}, parts : {<<>>}]
    \cup [username : {pAlice, pBlank}, blessing : {StrV(<<" ", "h", "i">>)},
          parts : {<<ImagePart>>, <<TextPart>>}]

DeleteRequests ==
  [username : UsernameParams,
   photoUrl : {PathV(UrlPath(StoredPath(pAlice, ImagePart)))}]

\* the route /u/:shortId matches no empty segment; "%20" gives " "
ShortIdParams ==
  {StrV(generateShortId(r)) : r \in {x \in Randoms : generateShortId(x) # <<>>}}
    \cup {StrV(<<" ">>), StrV(<<" ", "i", " ">>), StrV(sConstructor)}

GetUserRequest ==
  /\ \E usernameParam \in UsernameParams : GetUser(usernameParam)
  /\ UNCHANGED pending

ResolveRequest ==
  /\ \E shortIdParam \in ShortIdParams : Resolve(shortIdParam)
  /\ UNCHANGED pending

\* the profiles hold at most MaxPhotos photos: larger uploads are left out
Room == MaxPhotos - TotalPhotos(loadDb(dbFile))

PostConfig ==
  LET room == Room
  IN /\ \E request \in ConfigRequests :
          Len(request.parts) <= room /\ ConfigRequest(request, Randoms)
     /\ UNCHANGED pending

DeletePhotoRequest ==
  /\ \E request \in DeleteRequests :
       \E unlinkOk \in UnlinkOutcomes(request.photoUrl) :
         DeletePhoto(request.username, request.photoUrl, unlinkOk)
  /\ UNCHANGED pending

Next ==
  \/ GetUserRequest
  \/ PostConfig
  \/ DeletePhotoRequest
  \/ ResolveRequest

Spec == Init /\ [][Next]_vars

(***************************************************************************)
(* Requests of the specification SpecPhotos: uploads of up to MaxBatch     *)
(* parts for one username, deletions of every path, one short id to draw.  *)
(***************************************************************************)
PhotoUsernameParams == {pAlice, StrV(sProto), pBlank}

UploadParts == {ImagePart, PngPart, LaterPart, TextPart}

Batches == UNION {[1..n -> UploadParts] : n \in 0..MaxBatch}

PhotoRandoms == {<<"i">>}

\* an upload comes with a blessing; a request without one has no parts
PhotoConfigRequests ==
  [username : {pAlice}, blessing : {StrV(<<" ", "h", "i">>)}, parts : Batches]
    \cup [username : {pAlice, pBlank}, blessing : {Undefined}, parts : {<<>>}]
    \cup [username : {StrV(sProto)}, blessing : {StrV(<<" ", "h", "i">>)},
          parts : {<<>>}]

\* photo paths a client may name: those of the uploads, a relative variant,
\* the empty string, or none
PhotoUrlInputs ==
  {Undefined, PathV(EmptyUrl),
   PathV(UrlPath(StoredPath(pAlice, ImagePart))),
   PathV(UrlPath(StoredPath(pAlice, PngPart))),
   PathV(UrlPath(StoredPath(pAlice, LaterPart))),
   PathV([abs |-> FALSE, segs |-> StoredPath(pAlice, ImagePart).segs])}

PhotoDeleteRequests ==
  [username : {pAlice}, photoUrl : PhotoUrlInputs]
    \cup [username : {StrV(sProto), pBlank},
          photoUrl : {Undefined, PathV(UrlPath(StoredPath(pAlice, ImagePart)))}]

PhotosGetUser ==
  /\ \E usernameParam \in PhotoUsernameParams : GetUser(usernameParam)
  /\ UNCHANGED pending

PhotosResolve ==
  /\ \E shortIdParam \in {StrV(<<"i">>), StrV(sConstructor)} :
       Resolve(shortIdParam)
  /\ UNCHANGED pending

PhotosPostConfig ==
  LET room == Room
  IN /\ \E request \in PhotoConfigRequests :
          Len(request.parts) <= room /\ ConfigRequest(request, PhotoRandoms)
     /\ UNCHANGED pending

PhotosDeletePhoto ==
  /\ \E request \in PhotoDeleteRequests :
       \E unlinkOk \in UnlinkOutcomes(request.photoUrl) :
         DeletePhoto(request.username, request.photoUrl, unlinkOk)
  /\ UNCHANGED pending

NextPhotos ==
  \/ PhotosGetUser
  \/ PhotosPostConfig
  \/ PhotosDeletePhoto
  \/ PhotosResolve

SpecPhotos == Init /\ [][NextPhotos]_vars

(***************************************************************************)
(* Concurrent clients (SpecConcurrent).  A request is in flight from its   *)
(* arrival, when the asynchronous middleware reads its body (multer stores *)
(* the uploaded files, express.json parses the JSON), to its handler.  The *)
(* handler itself runs to completion on the event loop: loadDb and saveDb  *)
(* use readFileSync and writeFileSync, and nothing in it awaits.           *)
(***************************************************************************)
\* most requests of one behaviour
MaxRequests == 3

pBob == StrV(<<"b">>)

ConcUpdateRequests ==
  { [username |-> pAlice, blessing |-> StrV(<<" ", "h", "i">>),
     parts |-> <<ImagePart>>],
    [username |-> pBob, blessing |-> Undefined, parts |-> <<ImagePart>>] }

ConcDeleteRequests ==
  { [username |-> pAlice,
     photoUrl |-> PathV(UrlPath(StoredPath(pAlice, ImagePart)))] }

ConcRandoms == {<<"i">>, <<"k", "3", "x", "9", "q", "0", "a">>}

InFlight == {i \in 1..Len(pending) : pending[i].phase = "parsed"}

Done == {i \in 1..Len(pending) : pending[i].phase = "done"}

Arrived(kind, request) ==
  [kind |-> kind, req |-> request, phase |-> "parsed", arrivalFile |-> dbFile,
   inFlight |-> InFlight, order |-> 0, status |-> 0]

Finished(r, status) ==
  [r EXCEPT !.phase = "done", !.order = Cardinality(Done) + 1,
            !.status = status]

HandlerFileAtArrival(r) == r.arrivalFile

\* const db = loadDb() in the handler: the backing file as it is then
HandlerFile(r) == dbFile

\* a POST update arrives and multer stores its files
ArriveUpdate ==
  \E request \in ConcUpdateRequests :
    LET files == UploadedFiles(request.username, request.parts)
    IN /\ ~Blocked
       /\ Len(pending) < MaxRequests
       /\ FirstRejected(request.parts) = 0
       /\ disk' = disk \cup {files[i].path : i \in 1..Len(files)}
       /\ pending' = Append(pending, Arrived("update", request))
       /\ UNCHANGED <<dbFile, resp>>

\* a POST delete-photo arrives and its JSON body is parsed
ArriveDelete ==
  \E request \in ConcDeleteRequests :
    /\ ~Blocked
    /\ Len(pending) < MaxRequests
    /\ pending' = Append(pending, Arrived("deletePhoto", request))
    /\ UNCHANGED <<dbFile, disk, resp>>

HandleUpdate ==
  \E i \in InFlight :
    /\ ~Blocked
    /\ pending[i].kind = "update"
    /\ \E random \in ConcRandoms :
         ConfigHandler(HandlerFile(pending[i]), pending[i].req.username,
                       pending[i].req.blessing, pending[i].req.parts,
                       random, ConcRandoms)
    /\ UNCHANGED disk
    /\ pending' = [pending EXCEPT ![i] = Finished(@, resp'.status)]

HandleDelete ==
  \E i \in InFlight :
    /\ pending[i].kind = "deletePhoto"
    /\ \E unlinkOk \in UnlinkOutcomes(pending[i].req.photoUrl) :
         DeletePhoto(pending[i].req.username, pending[i].req.photoUrl, unlinkOk)
    /\ pending' = [pending EXCEPT ![i] = Finished(@, resp'.status)]

NextConcurrent ==
  \/ ArriveUpdate
  \/ ArriveDelete
  \/ HandleUpdate
  \/ HandleDelete

SpecConcurrent == Init /\ [][NextConcurrent]_vars

(***************************************************************************)
(* Vocabulary of the properties.                                           *)
(***************************************************************************)
\* the persisted store, as a request beginning now would load it
Store == loadDb(dbFile)

Normalize(param) == ToLowerCase(Trim(StringOrEmpty(param)))

HasProfile(db, u) == u \in DOMAIN db.byUsername

PhotosOf(db, u) == IF HasProfile(db, u) THEN db.byUsername[u].photos.v ELSE <<>>

ShortIdOf(db, u) == db.byUsername[u].shortId.v

Occurrences(a, x) == Cardinality({i \in 1..Len(a) : a[i] = x})

Without(a, x) == LET Keep(e) == e # x IN SelectSeq(a, Keep)

IsImageType(m) == StartsWith(m, mImagePrefix)

(***************************************************************************)
(* C1: in every reachable state of the persisted store no two profiles     *)
(* with different usernames hold the same non-empty shortId.               *)
(***************************************************************************)
C1_ShortIdsUnique ==
  \A u1 \in DOMAIN Store.byUsername, u2 \in DOMAIN Store.byUsername :
    (u1 # u2 /\ ShortIdOf(Store, u1) # <<>>)
      => ShortIdOf(Store, u1) # ShortIdOf(Store, u2)

\* two profiles, created by POST updates, both with a non-empty short id
C1_Witness ==
  /\ resp.op = "update" /\ resp.status = 200
  /\ \E u1 \in DOMAIN Store.byUsername, u2 \in DOMAIN Store.byUsername :
       /\ u1 # u2
       /\ ShortIdOf(Store, u1) # <<>>
       /\ ShortIdOf(Store, u2) # <<>>

(***************************************************************************)
(* C2: for each profile u of byUsername with a short id s, byShortId[s] is *)
(* u and s is the only key of byShortId that maps to u.                    *)
(***************************************************************************)
C2_Bidirectional ==
  \A u \in DOMAIN Store.byUsername :
    LET s == ShortIdOf(Store, u)
    IN /\ s \in DOMAIN Store.byShortId
       /\ Store.byShortId[s] = StrV(u)
       /\ \A k \in DOMAIN Store.byShortId :
            Store.byShortId[k] = StrV(u) => k = s

(***************************************************************************)
(* C3: after a successful POST update for username u with blessing b and   *)
(* files f1..fn the profile holds b trimmed and the photos u had before    *)
(* followed by the paths of f1..fn, and a GET profile for u that follows   *)
(* at once answers 200 with exactly that blessing and photo sequence.      *)
(***************************************************************************)
C3_GetAfterUpdate ==
  [][ /\ (resp'.op = "update" /\ resp'.status = 200) =>
           LET u == Normalize(resp'.req.username)
               paths == [i \in 1..Len(resp'.req.parts) |->
                           UrlPath(StoredPath(resp'.req.username, resp'.req.parts[i]))]
           IN /\ resp'.body.blessing = Trim(StringOrEmpty(resp'.req.blessing))
              /\ resp'.body.photos = PhotosOf(Store, u) \o paths
      /\ (/\ resp.op = "update" /\ resp.status = 200
          /\ resp'.op = "getUser"
          /\ Normalize(resp'.req.username) = Normalize(resp.req.username)) =>
           /\ resp'.status = 200
           /\ resp'.body.blessing = resp.body.blessing
           /\ resp'.body.photos = resp.body.photos
    ]_vars

(***************************************************************************)
(* C4: once a profile has a short id, no later request changes it, and     *)
(* every later successful POST update for the same username returns the    *)
(* short id the earlier one returned.                                      *)
(***************************************************************************)
C4_ShortIdStable ==
  [][ /\ \A u \in DOMAIN Store.byUsername :
           /\ u \in DOMAIN Store'.byUsername
           /\ ShortIdOf(Store', u) = ShortIdOf(Store, u)
      /\ (/\ resp.op = "update" /\ resp.status = 200
          /\ resp'.op = "update" /\ resp'.status = 200
          /\ Normalize(resp'.req.username) = Normalize(resp.req.username)) =>
           resp'.body.shortId = resp.body.shortId
    ]_vars

(***************************************************************************)
(* C5: a delete-photo request for a username with a profile, naming a path *)
(* that is not in that profile's photos, is answered 404 "Photo not found  *)
(* in user data" and leaves the persisted store as it was.                 *)
(***************************************************************************)
C5_DeleteAbsentPhoto ==
  [][ (/\ resp'.op = "deletePhoto"
       /\ HasProfile(Store, Normalize(resp'.req.username))
       /\ TruthyUrl(resp'.req.photoUrl)
       /\ Occurrences(PhotosOf(Store, Normalize(resp'.req.username)),
                      resp'.req.photoUrl.v) = 0) =>
        /\ resp'.status = 404
        /\ resp'.body = [ok |-> FALSE, error |-> "Photo not found in user data"]
        /\ dbFile' = dbFile
    ]_vars

\* a 404 for a path the profile does not hold while it holds other photos
C5_Witness ==
  /\ resp.op = "deletePhoto" /\ resp.status = 404
  /\ resp.body.error = "Photo not found in user data"
  /\ Len(PhotosOf(Store, Normalize(resp.req.username))) >= 2

(***************************************************************************)
(* C6: a delete-photo request for a path that occurs exactly once in the   *)
(* profile's photos is answered 200 and leaves the photos without that one *)
(* entry, the others in their order.                                       *)
(***************************************************************************)
C6_DeleteOnePhoto ==
  [][ (/\ resp'.op = "deletePhoto"
       /\ HasProfile(Store, Normalize(resp'.req.username))
       /\ TruthyUrl(resp'.req.photoUrl)
       /\ Occurrences(PhotosOf(Store, Normalize(resp'.req.username)),
                      resp'.req.photoUrl.v) = 1) =>
        /\ resp'.status = 200
        /\ PhotosOf(Store', Normalize(resp'.req.username))
             = Without(PhotosOf(Store, Normalize(resp'.req.username)),
                       resp'.req.photoUrl.v)
    ]_vars

\* the middle one of three different photos was deleted
C6_Witness ==
  /\ resp.op = "deletePhoto" /\ resp.status = 200
  /\ LET left == PhotosOf(Store, Normalize(resp.req.username))
     IN /\ Len(left) = 2
        /\ left[1] # left[2]
        /\ Occurrences(left, resp.req.photoUrl.v) = 0

(***************************************************************************)
(* C7: a POST update with a file whose content type does not start with    *)
(* image/ is answered 400 "Only image uploads are allowed" and leaves the  *)
(* persisted store unchanged: no file of the batch is appended.            *)
(***************************************************************************)
C7_NonImageRejected ==
  [][ (/\ resp'.op = "update"
       /\ \E i \in DOMAIN resp'.req.parts :
            ~IsImageType(resp'.req.parts[i].mimetype.v)) =>
        /\ resp'.status = 400
        /\ resp'.body = [error |-> "Only image uploads are allowed"]
        /\ dbFile' = dbFile
    ]_vars

\* an image followed by a non-image, sent for a profile that has photos
C7_Witness ==
  /\ resp.op = "update" /\ resp.status = 400
  /\ resp.body.error = "Only image uploads are allowed"
  /\ Len(resp.req.parts) = 2
  /\ IsImageType(resp.req.parts[1].mimetype.v)
  /\ Len(PhotosOf(Store, Normalize(resp.req.username))) >= 1

(***************************************************************************)
(* C8: short-link resolve for s redirects to the profile page with user=u  *)
(* when s is a short id of the store owned by u and answers 404 "Invalid   *)
(* link" when s is not; a short id of the store keeps its owner in every   *)
(* later state.                                                            *)
(***************************************************************************)
C8_ResolveAnswers ==
  [][ /\ resp'.op = "resolve" =>
           LET s == Trim(StringOrEmpty(resp'.req.shortId))
           IN IF s \in DOMAIN Store.byShortId
              THEN /\ resp'.status = 302
                   /\ resp'.body.user = EncodeURIComponent(Store.byShortId[s].v)
              ELSE /\ resp'.status = 404
                   /\ resp'.body = [text |-> "Invalid link"]
      /\ \A s \in DOMAIN Store.byShortId :
           /\ s \in DOMAIN Store'.byShortId
           /\ Store'.byShortId[s] = Store.byShortId[s]
    ]_vars

(***************************************************************************)
(* C9: while the backing file is missing or does not parse, the store      *)
(* loads as the empty store: GET profile and short-link resolve answer     *)
(* 404, and a POST update with a username succeeds and persists a store of *)
(* exactly the updated profile and its byShortId entry.                    *)
(***************************************************************************)
C9_LoadFailsOpen ==
  [][ dbFile.state # "json" =>
        /\ loadDb(dbFile) = EmptyDb
        /\ resp'.op \in {"getUser", "resolve"} => resp'.status = 404
        /\ (resp'.op = "update" /\ Normalize(resp'.req.username) # <<>>
              /\ \A i \in DOMAIN resp'.req.parts :
                   IsImageType(resp'.req.parts[i].mimetype.v)) =>
             /\ resp'.status = 200
             /\ DOMAIN Store'.byUsername = {Normalize(resp'.req.username)}
             /\ DOMAIN Store'.byShortId = {resp'.body.shortId}
             /\ Store'.byShortId[resp'.body.shortId]
                  = StrV(Normalize(resp'.req.username))
    ]_vars

(***************************************************************************)
(* C10: a delete-photo request is answered 400 if the normalized username  *)
(* is empty, else 400 if photoUrl is missing, else 404 if the username has *)
(* no profile, else 404 if photoUrl is not in the profile's photos, else   *)
(* 200; when the answer is not 200 the store is not saved and no file is   *)
(* deleted.                                                                *)
(***************************************************************************)
C10_DeleteOutcome(db, usernameParam, photoUrl) ==
  IF Normalize(usernameParam) = <<>> THEN 400
  ELSE IF ~TruthyUrl(photoUrl) THEN 400
  ELSE IF ~HasProfile(db, Normalize(usernameParam)) THEN 404
  ELSE IF Occurrences(PhotosOf(db, Normalize(usernameParam)), photoUrl.v) = 0
       THEN 404
  ELSE 200

C10_DeleteChecksInOrder ==
  [][ resp'.op = "deletePhoto" =>
        /\ resp'.status
             = C10_DeleteOutcome(Store, resp'.req.username, resp'.req.photoUrl)
        /\ resp'.status # 200 =>
             /\ ~resp'.saved
             /\ resp'.unlinked = {}
             /\ dbFile' = dbFile
             /\ disk' = disk
    ]_vars

\* a username parameter of white space only (or none): it normalizes to ""
IsBlank(param) ==
  param.t = "string" => \A i \in 1..Len(param.v) : param.v[i] = " "

AllImages(parts) == \A i \in 1..Len(parts) : IsImageType(parts[i].mimetype.v)

(***************************************************************************)
(* C11 as stated: every POST update whose username normalizes to the empty *)
(* string is answered 400 'Username is required' and leaves the persisted  *)
(* store as it was.                                                        *)
(***************************************************************************)
C11_BlankUsernameRequired ==
  [][ (resp'.op = "update" /\ IsBlank(resp'.req.username)) =>
        /\ resp'.status = 400
        /\ resp'.body = [error |-> "Username is required"]
        /\ dbFile' = dbFile
    ]_vars

(***************************************************************************)
(* C11, amended: a POST update whose username normalizes to the empty      *)
(* string is answered 400 and leaves the persisted store as it was; the    *)
(* error is 'Username is required' when every uploaded part is an image    *)
(* and 'Only image uploads are allowed' when the upload was rejected.      *)
(***************************************************************************)
C11_BlankUsernameRejected ==
  [][ (resp'.op = "update" /\ IsBlank(resp'.req.username)) =>
        /\ resp'.status = 400
        /\ resp'.body =
             IF AllImages(resp'.req.parts)
             THEN [error |-> "Username is required"]
             ELSE [error |-> "Only image uploads are allowed"]
        /\ ~resp'.saved
        /\ dbFile' = dbFile
    ]_vars

\* a blank username with an accepted image upload, over a store with a profile
C11_Witness ==
  /\ resp.op = "update" /\ IsBlank(resp.req.username)
  /\ Len(resp.req.parts) > 0 /\ AllImages(resp.req.parts)
  /\ resp.status = 400
  /\ DOMAIN Store.byUsername # {}

\* the completed requests of a kind that were answered 200 for username u
DoneOk(kind, u) ==
  {i \in Done : /\ pending[i].kind = kind
                /\ pending[i].status = 200
                /\ Normalize(pending[i].req.username) = u}

\* the URL paths a POST update appends to photos
PathsOf(r) ==
  [i \in 1..Len(r.req.parts) |-> UrlPath(StoredPath(r.req.username, r.req.parts[i]))]

AllPaths == UNION {{PathsOf(pending[i])[k] : k \in 1..Len(pending[i].req.parts)} :
                     i \in {j \in 1..Len(pending) : pending[j].kind = "update"}}

\* times the completed requests for u appended path p, less times they removed it
Expected(u, p) ==
  Cardinality({<<i, k>> \in DoneOk("update", u) \X (1..MaxBatch) :
                 k <= Len(pending[i].req.parts) /\ PathsOf(pending[i])[k] = p})
    - Cardinality({i \in DoneOk("deletePhoto", u) : pending[i].req.photoUrl.v = p})

LastUpdate(u) ==
  CHOOSE i \in DoneOk("update", u) :
    \A j \in DoneOk("update", u) : pending[j].order <= pending[i].order

\* the persisted store holds the effect of every completed write for u
EffectsKept(u) ==
  LET db == Store
      photos == PhotosOf(db, u)
  IN /\ \A p \in AllPaths : Occurrences(photos, p) = Expected(u, p)
     /\ DoneOk("update", u) # {} =>
          /\ HasProfile(db, u)
          /\ db.byUsername[u].blessing
               = StrV(Trim(StringOrEmpty(pending[LastUpdate(u)].req.blessing)))

\* the usernames that completed requests have written to
WrittenUsernames ==
  {Normalize(pending[i].req.username) : i \in {j \in Done : pending[j].status = 200}}

(***************************************************************************)
(* C12: when two requests that write (POST update or delete-photo) to two  *)
(* different usernames have both completed, in whatever order they arrived *)
(* and ran, the persisted store holds the effect of both: no save has      *)
(* overwritten the other's update with a stale snapshot.                   *)
(***************************************************************************)
C12_DifferentUsernamesSafe ==
  LET written == WrittenUsernames
  IN \A u \in written : written # {u} => EffectsKept(u)

\* two photo uploads for different usernames, in flight together, completed
C12_Witness ==
  \E i \in Done, j \in Done :
    /\ pending[i].kind = "update" /\ pending[j].kind = "update"
    /\ pending[i].status = 200 /\ pending[j].status = 200
    /\ Normalize(pending[i].req.username) # Normalize(pending[j].req.username)
    /\ i \in pending[j].inFlight
    /\ pending[j].order < pending[i].order

\* two POST updates for one username that were in flight together, i's
\* handler before j's
Overlapping(i, j) ==
  /\ i \in Done /\ j \in Done /\ i # j
  /\ pending[i].kind = "update" /\ pending[j].kind = "update"
  /\ pending[i].status = 200 /\ pending[j].status = 200
  /\ Normalize(pending[i].req.username) = Normalize(pending[j].req.username)
  /\ (i \in pending[j].inFlight \/ j \in pending[i].inFlight)
  /\ pending[i].order < pending[j].order

(***************************************************************************)
(* C13 as stated, for the interleaving it names: when two POST updates for *)
(* one username were in flight together and both have completed, a photo   *)
(* appended by the earlier save is missing from the persisted profile.     *)
(***************************************************************************)
C13_EarlierUpdateLost ==
  \A i \in 1..Len(pending), j \in 1..Len(pending) :
    Overlapping(i, j) =>
      \E k \in 1..Len(pending[i].req.parts) :
        LET u == Normalize(pending[i].req.username)
            p == PathsOf(pending[i])[k]
        IN Occurrences(PhotosOf(Store, u), p) < Expected(u, p)

(***************************************************************************)
(* C13, amended: no update is lost.  When two POST updates for one         *)
(* username were in flight together and both have completed, the persisted *)
(* profile holds the photos appended by both (less those removed by        *)
(* completed delete-photo requests) and the blessing of the later handler. *)
(***************************************************************************)
C13_NoLostUpdate ==
  \A i \in 1..Len(pending), j \in 1..Len(pending) :
    Overlapping(i, j) =>
      LET u == Normalize(pending[i].req.username)
          db == Store
          photos == PhotosOf(db, u)
      IN /\ \A k \in 1..Len(pending[i].req.parts) :
              Occurrences(photos, PathsOf(pending[i])[k])
                = Expected(u, PathsOf(pending[i])[k])
         /\ \A k \in 1..Len(pending[j].req.parts) :
              Occurrences(photos, PathsOf(pending[j])[k])
                = Expected(u, PathsOf(pending[j])[k])
         /\ pending[j].order = pending[LastUpdate(u)].order =>
              db.byUsername[u].blessing
                = StrV(Trim(StringOrEmpty(pending[j].req.blessing)))

\* the later handler's request arrived before the earlier handler ran, and
\* the photos of both are in the profile
C13_Witness ==
  \E i \in 1..Len(pending), j \in 1..Len(pending) :
    /\ Overlapping(i, j)
    /\ i \in pending[j].inFlight
    /\ Len(PhotosOf(Store, Normalize(pending[i].req.username))) = 2

(***************************************************************************)
(* C14: every POST update produces a response: the short-id loop ends,     *)
(* with a free token or with an error, and never retries forever.          *)
(***************************************************************************)
C14_UpdateAlwaysAnswers == resp.op = "update" => resp.status # 0

(***************************************************************************)
(* C18: a successful POST update or delete-photo for a username leaves the *)
(* other usernames' profiles and the byShortId entries of other usernames  *)
(* as they were; delete-photo also leaves the profile's blessing and       *)
(* shortId and all of byShortId as they were; GET profile and short-link   *)
(* resolve leave the persisted store as it was.                            *)
(***************************************************************************)
OthersUnchanged(u) ==
  /\ \A v \in DOMAIN Store.byUsername \ {u} :
       v \in DOMAIN Store'.byUsername
         /\ Store'.byUsername[v] = Store.byUsername[v]
  /\ DOMAIN Store'.byUsername \subseteq DOMAIN Store.byUsername \cup {u}
  /\ \A sid \in DOMAIN Store.byShortId :
       Store.byShortId[sid] # StrV(u) =>
         sid \in DOMAIN Store'.byShortId
           /\ Store'.byShortId[sid] = Store.byShortId[sid]
  /\ \A sid \in DOMAIN Store'.byShortId \ DOMAIN Store.byShortId :
       Store'.byShortId[sid] = StrV(u)

C18_FrameOfWrites ==
  [][ /\ (resp'.op = "update" /\ resp'.status = 200) =>
           OthersUnchanged(Normalize(resp'.req.username))
      /\ (resp'.op = "deletePhoto" /\ resp'.status = 200) =>
           LET u == Normalize(resp'.req.username)
           IN /\ OthersUnchanged(u)
              /\ Store'.byShortId = Store.byShortId
              /\ HasProfile(Store', u)
              /\ Store'.byUsername[u].blessing = Store.byUsername[u].blessing
              /\ Store'.byUsername[u].shortId = Store.byUsername[u].shortId
      /\ resp'.op \in {"getUser", "resolve"} => dbFile' = dbFile
    ]_vars

\* a successful write for one username over a store holding another profile
C18_Witness ==
  /\ resp.op \in {"update", "deletePhoto"} /\ resp.status = 200
  /\ DOMAIN Store.byUsername \ {Normalize(resp.req.username)} # {}
  /\ \E sid \in DOMAIN Store.byShortId :
       Store.byShortId[sid] # StrV(Normalize(resp.req.username))

(***************************************************************************)
(* C15: no photo path appears twice in a profile's photos: the generated   *)
(* names of two accepted uploads never collide.                            *)
(***************************************************************************)
C15_NoPathTwice ==
  \A u \in DOMAIN Store.byUsername :
    \A i \in 1..Len(PhotosOf(Store, u)), j \in 1..Len(PhotosOf(Store, u)) :
      i # j => PhotosOf(Store, u)[i] # PhotosOf(Store, u)[j]

(***************************************************************************)
(* C16: a delete-photo request for a path that is in the profile's photos  *)
(* is answered 200 and persists the photos without one entry of that path, *)
(* whether the file is deleted, is not on disk, or its deletion fails.     *)
(***************************************************************************)
C16_DeleteAnswersOk ==
  [][ (/\ resp'.op = "deletePhoto"
       /\ HasProfile(Store, Normalize(resp'.req.username))
       /\ TruthyUrl(resp'.req.photoUrl)
       /\ Occurrences(PhotosOf(Store, Normalize(resp'.req.username)),
                      resp'.req.photoUrl.v) >= 1) =>
        LET u == Normalize(resp'.req.username)
            url == resp'.req.photoUrl.v
        IN /\ resp'.status = 200
           /\ resp'.body = [ok |-> TRUE, message |-> "Photo deleted successfully"]
           /\ resp'.saved
           /\ Len(PhotosOf(Store', u)) = Len(PhotosOf(Store, u)) - 1
           /\ Occurrences(PhotosOf(Store', u), url)
                = Occurrences(PhotosOf(Store, u), url) - 1
           /\ disk' \in {disk, disk \ {DiskPathOfUrl(url)}}
    ]_vars

\* the deletion of the file failed: it is still on disk, the entry is gone
C16_Witness ==
  /\ resp.op = "deletePhoto" /\ resp.status = 200
  /\ resp.unlinked = {}
  /\ DiskPathOfUrl(resp.req.photoUrl.v) \in disk
  /\ Occurrences(PhotosOf(Store, Normalize(resp.req.username)),
                 resp.req.photoUrl.v) = 0

(***************************************************************************)
(* C17: delete-photo deletes a file only in a request that has saved the   *)
(* store, and no file it deletes is, in the store then persisted, still an *)
(* element of a profile's photos.                                          *)
(***************************************************************************)
C17_DeletesOnlyUnreferenced ==
  [][ resp'.op = "deletePhoto" =>
        /\ disk \ disk' = resp'.unlinked
        /\ resp'.unlinked # {} => resp'.saved
        /\ \A f \in resp'.unlinked :
             \A u \in DOMAIN Store'.byUsername :
               Occurrences(PhotosOf(Store', u), UrlPath(f)) = 0
    ]_vars

====
